---- MODULE Spec2Model ----
(***************************************************************************)
(* Model of omni/isaac/orbit/actuators/actuator_base.py: ActuatorBase.     *)
(*                                                                         *)
(* A joint name and a regular expression are sequences of tokens; the      *)
(* token ".*" of an expression matches any run of name tokens, every other *)
(* token matches itself.  A tensor of shape (n, m) is a sequence of n rows *)
(* of m numbers.  An optional value is <<>> (None) or <<v>>.               *)
(***************************************************************************)
EXTENDS Integers, Sequences, FiniteSets, TLC

VARIABLES cfgs, groups, classAttr

vars == <<cfgs, groups, classAttr>>

\* ------------------------------------------------------------------ bounds
MaxEnvs == 2
MaxJoints == 2
MaxMapLen == 2

\* ------------------------------------------------------------------ values
None == <<>>
Some(v) == <<v>>

\* a float: torch.inf or a finite number
Inf == [inf |-> TRUE, v |-> 0]
Fin(x) == [inf |-> FALSE, v |-> x]

\* dof_ids: Ellipsis, or an explicit list of indices
EllipsisIds == [all |-> TRUE, ids |-> <<>>]
ListIds(s) == [all |-> FALSE, ids |-> s]

GroupIds == {"g1", "g2"}

JointNames == {<<"hip", "left">>, <<"hip", "right">>, <<"knee">>}
Patterns == {<<"hip", ".*">>, <<"hip", "left">>, <<"hip">>, <<".*">>}
GainValues == {None, Some(50), Some(80)}
Efforts == {-15, 7, 15}

Injective(s) == \A i, j \in DOMAIN s : i # j => s[i] # s[j]
SeqsUpTo(S, n) == UNION {[1..k -> S] : k \in 0..n}

\* ----------------------------------------------------------- re.fullmatch
RECURSIVE fullmatch(_, _)
fullmatch(re_key, dof_name) ==
    IF re_key = <<>> THEN dof_name = <<>>
    ELSE IF Head(re_key) = ".*"
         THEN \/ fullmatch(Tail(re_key), dof_name)
              \/ dof_name # <<>> /\ fullmatch(re_key, Tail(dof_name))
         ELSE /\ dof_name # <<>>
              /\ Head(dof_name) = Head(re_key)
              /\ fullmatch(Tail(re_key), Tail(dof_name))

\* ----------------------------------------------------------------- tensors
\* torch.zeros(n, m)
zeros_mut(n, m) == [e \in 1..n |-> [j \in 1..(m + 1) |-> 0]]
zeros(n, m) == [e \in 1..n |-> [j \in 1..m |-> 0]]

\* torch.zeros_like(t)
zeros_like(t) == [e \in DOMAIN t |-> [j \in DOMAIN t[e] |-> 0]]

\* t[:, index] = value
SetColumn(t, index, value) ==
    [e \in DOMAIN t |-> [j \in DOMAIN t[e] |-> IF j = index THEN value ELSE t[e][j]]]

\* ---------------------------------------------------------- gains overlay
\* one (re_key, value) item of the map, applied to joint `index`
ApplyItem_mut(t, index, dof_name, item) ==
    IF fullmatch(item.re_key, dof_name)
    THEN SetColumn(t, index, IF item.value # None THEN item.value[1] ELSE 0)
    ELSE t
ApplyItem(t, index, dof_name, item) ==
    IF fullmatch(item.re_key, dof_name)
    THEN IF item.value # None THEN SetColumn(t, index, item.value[1]) ELSE t
    ELSE t

\* for re_key, value in map.items(): ...
RECURSIVE ApplyItems(_, _, _, _)
ApplyItems(t, index, dof_name, items) ==
    IF items = <<>> THEN t
    ELSE ApplyItems(ApplyItem(t, index, dof_name, Head(items)), index, dof_name, Tail(items))

\* for index, dof_name in enumerate(self.dof_names): if map is not None: ...
RECURSIVE ParseGains(_, _, _, _)
ParseGains(t, dof_names, index, map) ==
    IF index > Len(dof_names) THEN t
    ELSE ParseGains(IF map # None THEN ApplyItems(t, index, dof_names[index], map[1]) ELSE t,
                    dof_names, index + 1, map)

\* ------------------------------------------------------------- attributes
\* self.<limit> lookup: the instance attribute when set, else the class attribute
GetAttr(inst, cls) == IF inst # None THEN inst[1] ELSE cls

\* if self.cfg.<limit> is not None: self.<limit> = self.cfg.<limit>
ParseLimit_mut(inst, cls, cfg_limit) ==
    IF cfg_limit # None THEN [inst |-> inst, cls |-> Fin(cfg_limit[1])]
    ELSE [inst |-> inst, cls |-> cls]
ParseLimit_abs(inst, cls, cfg_limit) ==
    IF cfg_limit # None
    THEN [inst |-> Some(Fin(IF cfg_limit[1] < 0 THEN -cfg_limit[1] ELSE cfg_limit[1])),
          cls |-> cls]
    ELSE [inst |-> inst, cls |-> cls]
ParseLimit(inst, cls, cfg_limit) ==
    IF cfg_limit # None THEN [inst |-> Some(Fin(cfg_limit[1])), cls |-> cls]
    ELSE [inst |-> inst, cls |-> cls]

effort_limit_live(g) ==
    IF cfgs[g.cfg].effort_limit # None THEN Fin(cfgs[g.cfg].effort_limit[1])
    ELSE classAttr.effort_limit
effort_limit(g) == GetAttr(g.effort_limit, classAttr.effort_limit)
velocity_limit(g) == GetAttr(g.velocity_limit, classAttr.velocity_limit)

\* ------------------------------------------------------------- properties
num_joints_mut(self) == IF Len(self._dof_names) = 0 THEN 1 ELSE Len(self._dof_names)
num_joints(self) == Len(self._dof_names)

dof_names(self) == self._dof_names

dof_indices(self) == self._dof_indices

\* ------------------------------------------------------------ constructor
\* "save parameters": the references the constructor keeps
SaveParams_resolve(cfg, names, dof_ids, num_envs) ==
    [cfg |-> cfg, _num_envs |-> num_envs,
     _dof_names |-> SelectSeq(names,
                      LAMBDA n : \E i \in DOMAIN cfgs[cfg].dof_names_expr :
                                    fullmatch(cfgs[cfg].dof_names_expr[i], n)),
     _dof_indices |-> dof_ids]
SaveParams_swap(cfg, names, dof_ids, num_envs) ==
    [cfg |-> cfg, _num_envs |-> num_envs, _dof_names |-> names,
     _dof_indices |-> IF dof_ids.all THEN dof_ids
                      ELSE ListIds([i \in DOMAIN names |-> i - 1])]
SaveParams(cfg, names, dof_ids, num_envs) ==
    [cfg |-> cfg, _num_envs |-> num_envs, _dof_names |-> names, _dof_indices |-> dof_ids]

\* ActuatorBase.__init__(cfg, dof_names, dof_ids, num_envs, device); `id` is
\* both the new group's identity and the reference to the caller's config.
Construct(id, names, dof_ids, num_envs) ==
    /\ id \in DOMAIN cfgs
    /\ id \notin DOMAIN groups
    /\ LET cfg == cfgs[id]
           self == SaveParams(id, names, dof_ids, num_envs)
           computed == zeros(self._num_envs, num_joints(self))
           eff == ParseLimit(None, classAttr.effort_limit, cfg.effort_limit)
           vel == ParseLimit(None, classAttr.velocity_limit, cfg.velocity_limit)
       IN /\ groups' = (id :> [cfg |-> self.cfg,
                               _num_envs |-> self._num_envs,
                               _dof_names |-> self._dof_names,
                               _dof_indices |-> self._dof_indices,
                               computed_effort |-> computed,
                               applied_effort |-> zeros_like(computed),
                               stiffness |-> ParseGains(zeros_like(computed), dof_names(self),
                                                        1, cfg.stiffness),
                               damping |-> ParseGains(zeros_like(computed), dof_names(self),
                                                      1, cfg.damping),
                               effort_limit |-> eff.inst,
                               velocity_limit |-> vel.inst,
                               \* history: the arguments of the call, and whether
                               \* compute has run since
                               args |-> [cfg |-> cfg, dof_names |-> names,
                                         dof_ids |-> dof_ids, num_envs |-> num_envs],
                               computes |-> FALSE]) @@ groups
          /\ classAttr' = [effort_limit |-> eff.cls, velocity_limit |-> vel.cls]
    /\ UNCHANGED cfgs

\* ActuatorBase.__str__: the fields of the summary
Str(id) ==
    LET self == groups[id]
    IN [num_joints |-> num_joints(self),
        dof_names_expr |-> cfgs[self.cfg].dof_names_expr,
        dof_names |-> dof_names(self),
        dof_indices |-> IF dof_indices(self).all
                        THEN [i \in 1..num_joints(self) |-> i - 1]
                        ELSE dof_indices(self).ids]

\* ------------------------------------------------------------- the caller
\* the caller builds a configuration object
NewCfg(id, c) ==
    /\ id \notin DOMAIN cfgs
    /\ cfgs' = (id :> c) @@ cfgs
    /\ UNCHANGED <<groups, classAttr>>

\* the caller changes its configuration object after the group was built
MutateCfg(id, c) ==
    /\ id \in DOMAIN groups
    /\ c # cfgs[id]
    /\ cfgs' = [cfgs EXCEPT ![id] = c]
    /\ UNCHANGED <<groups, classAttr>>

\* --------------------------------------------- reset and compute (variant)
\* torch.clip(x, min=-limit, max=limit)
Clip_mut(x, limit) == x
Clip(x, limit) ==
    IF limit.inf THEN x
    ELSE LET lo == IF x < -limit.v THEN -limit.v ELSE x
         IN IF lo > limit.v THEN limit.v ELSE lo

\* compute of the pass-through variant: the commanded effort, limited
Compute(id, effort) ==
    /\ id \in DOMAIN groups
    /\ groups' = [groups EXCEPT
         ![id].computed_effort = effort,
         ![id].applied_effort =
             [e \in DOMAIN effort |->
                [j \in DOMAIN effort[e] |-> Clip(effort[e][j], effort_limit(groups[id]))]],
         ![id].computes = TRUE]
    /\ UNCHANGED <<cfgs, classAttr>>

\* rows of t addressed by env_ids zeroed
ZeroRows_mut(t, env_ids) == [e \in DOMAIN t |-> [j \in DOMAIN t[e] |-> 0]]
ZeroRows(t, env_ids) ==
    [e \in DOMAIN t |-> IF e \in env_ids THEN [j \in DOMAIN t[e] |-> 0] ELSE t[e]]

\* reset of the variant: the effort buffers of the addressed environments cleared
Reset(id, env_ids) ==
    /\ id \in DOMAIN groups
    /\ groups' = [groups EXCEPT
         ![id].computed_effort = ZeroRows(@, env_ids),
         ![id].applied_effort = ZeroRows(@, env_ids)]
    /\ UNCHANGED <<cfgs, classAttr>>

\* ------------------------------------------------------------------ inputs
Cfg(expr, eff, vel, stiff, damp) ==
    [dof_names_expr |-> expr, effort_limit |-> eff, velocity_limit |-> vel,
     stiffness |-> stiff, damping |-> damp]

\* dof_names arguments: lists of distinct joint names
NameLists == {s \in SeqsUpTo(JointNames, MaxJoints) : Injective(s)}

\* dof_ids arguments for a list of names: Ellipsis, the names' positions, a list
\* repeating index 0, a list one index short
IdChoices(names) ==
    {EllipsisIds,
     ListIds([i \in DOMAIN names |-> i - 1]),
     ListIds([i \in DOMAIN names |-> 0]),
     ListIds([i \in 1..(Len(names) - 1) |-> i - 1])}

Envs(n) == 1..n

\* control_action efforts of shape (n, m): one value everywhere but at one place
ActionTensors(n, m) ==
    {[e \in 1..n |-> [j \in 1..m |-> IF <<e, j>> = at THEN p ELSE b]] :
        at \in (1..n) \X (1..m), p \in Efforts, b \in Efforts} \cup {zeros(n, m)}

MainCfgs ==
    {Cfg(expr, eff, None, None, None) :
        expr \in {<< <<"hip", ".*">> >>, << <<"knee">>, <<"hip", "left">> >>},
        eff \in {None, Some(10)}}

\* ---------------------------------------------------------- specifications
Init ==
    /\ cfgs = <<>>
    /\ groups = <<>>
    /\ classAttr = [effort_limit |-> Inf, velocity_limit |-> Inf]

\* one group: construction, compute, reset
Next ==
    \/ \E c \in MainCfgs : NewCfg("g1", c)
    \/ \E names \in NameLists : \E dof_ids \in IdChoices(names) : \E n \in 1..MaxEnvs :
          Construct("g1", names, dof_ids, n)
    \/ /\ "g1" \in DOMAIN groups
       /\ \E t \in ActionTensors(groups["g1"]._num_envs, num_joints(groups["g1"])) :
             Compute("g1", t)
    \/ /\ "g1" \in DOMAIN groups
       /\ \E env_ids \in SUBSET Envs(groups["g1"]._num_envs) : Reset("g1", env_ids)

Spec == Init /\ [][Next]_vars

\* gain maps: items with pairwise distinct keys, in insertion order
GainMaps ==
    {m \in SeqsUpTo([re_key : Patterns, value : GainValues], MaxMapLen) :
        \A i, j \in DOMAIN m : i # j => m[i].re_key # m[j].re_key}

Reverse(s) == [i \in DOMAIN s |-> s[Len(s) + 1 - i]]

GainCfgs ==
    LET expr == << <<".*">> >>
    IN {Cfg(expr, None, None, st, None) : st \in {None} \cup {Some(m) : m \in GainMaps}}
       \cup {Cfg(expr, None, None, None, Some(m)) : m \in GainMaps}
       \cup {Cfg(expr, None, None, Some(m), Some(Reverse(m))) : m \in GainMaps}

\* one group: construction with every gain map
NextOverlay ==
    \/ \E c \in GainCfgs : NewCfg("g1", c)
    \/ \E names \in NameLists : \E n \in 1..MaxEnvs : Construct("g1", names, EllipsisIds, n)

SpecOverlay == Init /\ [][NextOverlay]_vars

LimitCfgs ==
    {Cfg(<< <<".*">> >>, eff, vel, None, None) :
        eff \in {None, Some(10), Some(-5)}, vel \in {None, Some(3), Some(-1)}}

\* two groups: construction with every pair of limits
NextLimits ==
    \/ \E id \in GroupIds : \E c \in LimitCfgs : NewCfg(id, c)
    \/ \E id \in GroupIds : \E names \in {s \in NameLists : Len(s) = 1} :
          Construct(id, names, EllipsisIds, 1)

SpecLimits == Init /\ [][NextLimits]_vars

SmallCfgs ==
    {Cfg(expr, eff, vel, st, None) :
        expr \in {<< <<"hip", ".*">> >>, << <<"knee">>, <<"hip", "left">> >>},
        eff \in {None, Some(10)},
        vel \in {None, Some(3)},
        st \in {None, Some(<<[re_key |-> <<"hip", ".*">>, value |-> Some(50)]>>)}}

\* one group: construction, then the caller changing its configuration
NextCfg ==
    \/ \E c \in SmallCfgs : NewCfg("g1", c)
    \/ \E names \in NameLists : \E dof_ids \in IdChoices(names) : \E n \in 1..MaxEnvs :
          Construct("g1", names, dof_ids, n)
    \/ \E c \in SmallCfgs : MutateCfg("g1", c)

SpecCfg == Init /\ [][NextCfg]_vars

\* ================================================================== claims
Shape(t, n, m) == Len(t) = n /\ \A e \in 1..n : Len(t[e]) = m
AllZero(t) == \A e \in DOMAIN t : \A j \in DOMAIN t[e] : t[e][j] = 0
Max(S) == CHOOSE x \in S : \A y \in S : y <= x

\* the value the last matching, non-None item of a map gives a joint; 0 without one
LastMatching(map, name) ==
    IF map = None THEN 0
    ELSE LET items == map[1]
             hits == {k \in DOMAIN items :
                        fullmatch(items[k].re_key, name) /\ items[k].value # None}
         IN IF hits = {} THEN 0 ELSE items[Max(hits)].value[1]

\* C1: after construction every stiffness (damping) entry of joint i, in every
\* environment, is the value of the last item of the stiffness (damping) map whose
\* pattern full-matches the joint's name and whose value is not None, and 0 when
\* there is no such item.
Thm_C1 ==
    \A id \in DOMAIN groups :
        LET g == groups[id]
        IN \A e \in 1..g._num_envs : \A i \in 1..num_joints(g) :
              /\ g.stiffness[e][i] = LastMatching(g.args.cfg.stiffness, g._dof_names[i])
              /\ g.damping[e][i] = LastMatching(g.args.cfg.damping, g._dof_names[i])

\* the overlay ["hip.*": 50, "hip_left": 80] over [hip_left, hip_right] gave [80, 50]
Wit_C1 ==
    \E id \in DOMAIN groups :
        /\ groups[id].args.cfg.stiffness =
              Some(<<[re_key |-> <<"hip", ".*">>, value |-> Some(50)],
                     [re_key |-> <<"hip", "left">>, value |-> Some(80)]>>)
        /\ groups[id]._dof_names = << <<"hip", "left">>, <<"hip", "right">> >>
        /\ groups[id].stiffness[1] = <<80, 50>>

\* a value within [-limit, +limit], limited
ClampedTo(applied, computed, limit) ==
    IF limit.inf THEN applied = computed
    ELSE /\ computed > limit.v => applied = limit.v
         /\ computed < -limit.v => applied = -limit.v
         /\ (-limit.v <= computed /\ computed <= limit.v) => applied = computed

ResolvedNames(patterns, names) ==
    SelectSeq(names, LAMBDA n : \E k \in DOMAIN patterns : fullmatch(patterns[k], n))

Orig_C4 == \A id \in DOMAIN groups : num_joints(groups[id]) > 0

\* C4 (amended): construction with an empty list of joint names succeeds; the
\* group has zero joints and its four buffers have shape (num_envs, 0).
Thm_C4 ==
    \A id \in DOMAIN groups :
        LET g == groups[id]
        IN g.args.dof_names = <<>> =>
              /\ num_joints(g) = 0
              /\ Shape(g.computed_effort, g.args.num_envs, 0)
              /\ Shape(g.applied_effort, g.args.num_envs, 0)
              /\ Shape(g.stiffness, g.args.num_envs, 0)
              /\ Shape(g.damping, g.args.num_envs, 0)

\* a group built from an empty list of joint names
Wit_C4 ==
    \E id \in DOMAIN groups :
        groups[id].args.dof_names = <<>> /\ groups[id].args.num_envs = 2

\* what reset(env_ids) must leave alone in the step it takes
ResetFrame(id, env_ids) ==
    /\ \A e \in 1..groups[id]._num_envs :
          e \notin env_ids =>
              /\ groups'[id].computed_effort[e] = groups[id].computed_effort[e]
              /\ groups'[id].applied_effort[e] = groups[id].applied_effort[e]
              /\ groups'[id].stiffness[e] = groups[id].stiffness[e]
              /\ groups'[id].damping[e] = groups[id].damping[e]
    /\ groups'[id]._dof_names = groups[id]._dof_names
    /\ groups'[id]._dof_indices = groups[id]._dof_indices
    /\ effort_limit(groups[id])' = effort_limit(groups[id])
    /\ velocity_limit(groups[id])' = velocity_limit(groups[id])

\* C5: a step reset(env_ids) changes no entry of the four buffers in an
\* environment outside env_ids, and changes neither the joint set nor the limits.
Thm_C5 ==
    [][\A env_ids \in SUBSET Envs(MaxEnvs) :
          Reset("g1", env_ids) => ResetFrame("g1", env_ids)]_vars

\* after compute and a reset of environment 2 alone: row 2 zero, row 1 not
Wit_C5 ==
    \E id \in DOMAIN groups :
        /\ groups[id].computes
        /\ groups[id]._num_envs = 2
        /\ num_joints(groups[id]) = 2
        /\ AllZero(<<groups[id].computed_effort[2]>>)
        /\ groups[id].computed_effort[1] = <<15, 7>>

\* the limit a group must see for a configured limit
OwnLimit(cfg_limit) == IF cfg_limit = None THEN Inf ELSE Fin(cfg_limit[1])

\* C6: every group's effort_limit (velocity_limit) is its own config's limit
\* when that is present and +infinity when it is absent, whatever other groups
\* were constructed before or after it.
Thm_C6 ==
    \A id \in DOMAIN groups :
        /\ effort_limit(groups[id]) = OwnLimit(groups[id].args.cfg.effort_limit)
        /\ velocity_limit(groups[id]) = OwnLimit(groups[id].args.cfg.velocity_limit)

\* two groups, one with effort limit 10 and one with none: 10 and +infinity
Wit_C6 ==
    /\ DOMAIN groups = GroupIds
    /\ \E a, b \in GroupIds :
          /\ groups[a].args.cfg.effort_limit = Some(10)
          /\ groups[b].args.cfg.effort_limit = None
          /\ effort_limit(groups[a]) = Fin(10)
          /\ effort_limit(groups[b]) = Inf

NonNegative(limit) == limit.inf \/ limit.v >= 0

\* C7 (as stated): in every constructed group both limits are non-negative.
Orig_C7 ==
    \A id \in DOMAIN groups :
        NonNegative(effort_limit(groups[id])) /\ NonNegative(velocity_limit(groups[id]))

\* C7 (amended): construction with a negative configured limit succeeds and the
\* group keeps it: a group's limit is negative exactly when its config's is.
Thm_C7 ==
    \A id \in DOMAIN groups :
        LET c == groups[id].args.cfg
        IN /\ ~NonNegative(effort_limit(groups[id])) <=>
                 (c.effort_limit # None /\ c.effort_limit[1] < 0)
           /\ ~NonNegative(velocity_limit(groups[id])) <=>
                 (c.velocity_limit # None /\ c.velocity_limit[1] < 0)

\* a group constructed with effort limit -5 and velocity limit -1
Wit_C7 ==
    \E id \in DOMAIN groups :
        effort_limit(groups[id]) = Fin(-5) /\ velocity_limit(groups[id]) = Fin(-1)

\* C8: the four buffers of every group have shape (num_envs, num_joints) in
\* every reachable state, and computed_effort and applied_effort are zero
\* everywhere until the first compute.
Thm_C8 ==
    \A id \in DOMAIN groups :
        LET g == groups[id]
        IN /\ Shape(g.computed_effort, g._num_envs, num_joints(g))
           /\ Shape(g.applied_effort, g._num_envs, num_joints(g))
           /\ Shape(g.stiffness, g._num_envs, num_joints(g))
           /\ Shape(g.damping, g._num_envs, num_joints(g))
           /\ ~g.computes => AllZero(g.computed_effort) /\ AllZero(g.applied_effort)

\* a group of 2 environments and 2 joints after compute
Wit_C8 ==
    \E id \in DOMAIN groups :
        /\ groups[id].computes
        /\ groups[id]._num_envs = 2
        /\ num_joints(groups[id]) = 2
        /\ ~AllZero(groups[id].applied_effort)

\* the indices a group stands for: Ellipsis is every joint of the group
Indices(g) ==
    IF dof_indices(g).all THEN [i \in 1..num_joints(g) |-> i - 1] ELSE dof_indices(g).ids

JointSetInv(g) == Injective(Indices(g)) /\ Len(Indices(g)) = num_joints(g)

\* C9 (as stated): in every constructed group the indices are pairwise distinct
\* and as many as the joint names.
Orig_C9 == \A id \in DOMAIN groups : JointSetInv(groups[id])

\* C9 (amended): a group's joint names and indices are those given to its
\* constructor, unchecked, and no step changes them; the indices are pairwise
\* distinct and as many as the names when the given ones are (or Ellipsis).
Thm_C9 ==
    /\ [](\A id \in DOMAIN groups :
            LET g == groups[id]
            IN /\ dof_names(g) = g.args.dof_names
               /\ dof_indices(g) = g.args.dof_ids
               /\ (g.args.dof_ids.all
                    \/ (Injective(g.args.dof_ids.ids)
                         /\ Len(g.args.dof_ids.ids) = Len(g.args.dof_names)))
                  => JointSetInv(g))
    /\ [][\A id \in DOMAIN groups :
            /\ id \in DOMAIN groups'
            /\ dof_names(groups'[id]) = dof_names(groups[id])
            /\ dof_indices(groups'[id]) = dof_indices(groups[id])]_vars

\* a group keeps the repeated indices [0, 0] through compute
Wit_C9 ==
    \E id \in DOMAIN groups :
        /\ groups[id].computes
        /\ dof_indices(groups[id]) = ListIds(<<0, 0>>)
        /\ num_joints(groups[id]) = 2

\* what the caller can observe of a group, but for its summary
Observable(id) ==
    <<effort_limit(groups[id]), velocity_limit(groups[id]), groups[id].stiffness,
      groups[id].damping, dof_names(groups[id]), dof_indices(groups[id]),
      num_joints(groups[id])>>

\* C10 (as stated): the group's summary shows what the config held at
\* construction, whatever the caller did to the config since.
Orig_C10 ==
    \A id \in DOMAIN groups :
        Str(id).dof_names_expr = groups[id].args.cfg.dof_names_expr

\* C10 (amended): construction leaves the config as it is, and the group keeps a
\* reference to it: a later change of the config changes none of the limits,
\* gains and joint set, and the summary shows the config's current
\* dof_names_expr.
Thm_C10 ==
    [][/\ \A c \in SmallCfgs :
            MutateCfg("g1", c) =>
                /\ Observable("g1")' = Observable("g1")
                /\ Str("g1")' = [Str("g1") EXCEPT !.dof_names_expr = c.dof_names_expr]
       /\ "g1" \in DOMAIN groups' /\ "g1" \notin DOMAIN groups => cfgs' = cfgs]_vars

\* the caller changed every field of the config; the summary shows the new
\* expression and the limit and gains are those of construction
Wit_C10 ==
    \E id \in DOMAIN groups :
        LET c0 == groups[id].args.cfg
        IN /\ cfgs[id].dof_names_expr # c0.dof_names_expr
           /\ cfgs[id].effort_limit # c0.effort_limit
           /\ cfgs[id].stiffness # c0.stiffness
           /\ Str(id).dof_names_expr = cfgs[id].dof_names_expr
           /\ effort_limit(groups[id]) = Fin(10)
           /\ num_joints(groups[id]) = 2
           /\ ~AllZero(groups[id].stiffness)

====
